---- MODULE Spec2Model ----
(***************************************************************************)
(* Model of codex-rs/common/src/model_presets.rs: the static preset        *)
(* catalog (PRESETS), the two resolution entry points                      *)
(* (builtin_model_presets_sync, builtin_model_presets) and the remote      *)
(* fetch (fetch_oracle_code_assist_models) with its serde schema.          *)
(*                                                                         *)
(* Conventions: Option<T> is a sequence of length <= 1 (None == <<>>,      *)
(* Some(x) == <<x>>).  A JSON value is a record [t, s]: t its JSON type    *)
(* ("str", "num", "null") and s its text.  A JSON object member that may   *)
(* be absent is an Option of a JSON value (or of an object).  A &str that  *)
(* the code edits character-wise (base_url) is a sequence of characters.   *)
(***************************************************************************)
EXTENDS Integers, Sequences, FiniteSets, TLC

VARIABLES
    catalog,       \* the process-wide static data PRESETS points to
    pc,            \* "idle" | "send" | "json" | "done" | "panicked"
    entry,         \* entry point of the call in progress: "none" | "sync" | "async" | "fetch"
    auth_mode,     \* _auth_mode argument of the call (Option<AuthMode>)
    base_url,      \* base_url argument, Option<&str>, held until the request completes
    access_token,  \* access_token argument, Option<&str>, held until the request completes
    request,       \* Option: the GET request in flight, [url, bearer]
    requests,      \* number of requests the call in progress has issued
    transport,     \* outcome of send(): "none" | "ok" | "error"
    status,        \* Option: the status code of the response received
    response,      \* Option: the body of the response whose json() is awaited / was read
    json_called,   \* TRUE once response.json::<ModelInfoResponse>() was invoked
    result         \* what the call returned: [kind, presets, err]

vars == << catalog, pc, entry, auth_mode, base_url, access_token, request,
           requests, transport, status, response, json_called, result >>

\* ---------------------------------------------------------------- bounds

\* Largest number of records in the data list of a registry response.
MaxRecords == 2

\* ---------------------------------------------------------------- options

None == << >>
Some(x) == << x >>
IsSome(o) == Len(o) = 1
Unwrap(o) == o[1]

\* Option<&str>::unwrap_or_default: the empty string for None.
UnwrapOrDefault(o) == IF IsSome(o) THEN o[1] ELSE << >>

\* Option<String>::unwrap_or_default on a text held as a TLA+ string.
UnwrapOrEmpty(o) == IF IsSome(o) THEN o[1] ELSE ""

\* ---------------------------------------------------------------- domain model

AuthModes == {"ApiKey", "ChatGPT", "OCA"}

ReasoningEffortPreset(e, d) == [effort |-> e, description |-> d]

ModelPreset(i, m, n, d, dre, sre, isd) ==
    [id |-> i, model |-> m, display_name |-> n, description |-> d,
     default_reasoning_effort |-> dre, supported_reasoning_efforts |-> sre,
     is_default |-> isd]

\* ---------------------------------------------------------------- static catalog

\* A catalog in which both built-in presets are flagged default.
PRESETS_both_default ==
    << ModelPreset("gpt-5-codex", "gpt-5-codex", "gpt-5-codex",
                   "Optimized for coding tasks with many tools.",
                   Some("Medium"),
                   << ReasoningEffortPreset("Low", "Fastest responses with limited reasoning"),
                      ReasoningEffortPreset("Medium", "Dynamically adjusts reasoning based on the task"),
                      ReasoningEffortPreset("High", "Maximizes reasoning depth for complex or ambiguous problems") >>,
                   TRUE),
       ModelPreset("gpt-5", "gpt-5", "gpt-5",
                   "Broad world knowledge with strong general reasoning.",
                   Some("Medium"),
                   << ReasoningEffortPreset("Minimal", "Fastest responses with little reasoning"),
                      ReasoningEffortPreset("Low", "Balances speed with some reasoning; useful for straightforward queries and short explanations"),
                      ReasoningEffortPreset("Medium", "Provides a solid balance of reasoning depth and latency for general-purpose tasks"),
                      ReasoningEffortPreset("High", "Maximizes reasoning depth for complex or ambiguous problems") >>,
                   TRUE) >>

PRESETS ==
    << ModelPreset("gpt-5-codex", "gpt-5-codex", "gpt-5-codex",
                   "Optimized for coding tasks with many tools.",
                   Some("Medium"),
                   << ReasoningEffortPreset("Low", "Fastest responses with limited reasoning"),
                      ReasoningEffortPreset("Medium", "Dynamically adjusts reasoning based on the task"),
                      ReasoningEffortPreset("High", "Maximizes reasoning depth for complex or ambiguous problems") >>,
                   TRUE),
       ModelPreset("gpt-5", "gpt-5", "gpt-5",
                   "Broad world knowledge with strong general reasoning.",
                   Some("Medium"),
                   << ReasoningEffortPreset("Minimal", "Fastest responses with little reasoning"),
                      ReasoningEffortPreset("Low", "Balances speed with some reasoning; useful for straightforward queries and short explanations"),
                      ReasoningEffortPreset("Medium", "Provides a solid balance of reasoning depth and latency for general-purpose tasks"),
                      ReasoningEffortPreset("High", "Maximizes reasoning depth for complex or ambiguous problems") >>,
                   FALSE) >>

\* ---------------------------------------------------------------- results

NoResult == [kind |-> "None", presets |-> << >>, err |-> ""]
Ok(ps) == [kind |-> "Ok", presets |-> ps, err |-> ""]
Err(e) == [kind |-> "Err", presets |-> << >>, err |-> e]
Panic == [kind |-> "Panic", presets |-> << >>,
          err |-> "OCA auth mode requires async builtin_model_presets function"]

\* ---------------------------------------------------------------- auth-mode branch

\* Every authenticated mode is routed to the registry.
IsOCA_any_mode(mode) == IsSome(mode)

\* No mode is routed to the registry.
IsOCA_never(mode) == FALSE

\* _auth_mode == Some(AuthMode::OCA)
IsOCA(mode) == mode = Some("OCA")

\* ---------------------------------------------------------------- request

\* str::trim_end_matches('/') on a sequence of characters.
RECURSIVE TrimEndSlashes(_)
TrimEndSlashes(s) ==
    IF Len(s) > 0 /\ s[Len(s)] = "/"
    THEN TrimEndSlashes(SubSeq(s, 1, Len(s) - 1))
    ELSE s

\* format!("{}/v1/model/info", base_url.trim_end_matches('/'))
Url(b) == TrimEndSlashes(b) \o << "/v1/model/info" >>

\* client.get(&url).bearer_auth(access_token)
Request(b, t) == [url |-> Url(b), bearer |-> t]

\* Any status from 200 upwards counts as a success.
IsSuccess_no_upper_bound(s) == s >= 200

\* StatusCode::is_success: 200 <= status < 300.
IsSuccess(s) == s >= 200 /\ s < 300

\* ---------------------------------------------------------------- registry schema

Str(x) == [t |-> "str", s |-> x]
Num(x) == [t |-> "num", s |-> x]
Null == [t |-> "null", s |-> ""]

\* The JSON object under "litellm_params".
LiteLLMJson(mt, m) == [max_tokens |-> mt, model |-> m]

\* The JSON object under "model_info".
InfoJson(b, cw, d) == [banner |-> b, context_window |-> cw, description |-> d]

\* One JSON record of the "data" list.
RecordJson(mi, mn, lp) == [model_info |-> mi, model_name |-> mn, litellm_params |-> lp]

\* A field of type String: the member must be present and a JSON string.
\* None is the deserialisation error, Some(v) the value.
ParseString(f) == IF IsSome(f) /\ f[1].t = "str" THEN Some(f[1].s) ELSE None

\* A field of type i64: the member must be present and a JSON number.
ParseI64(f) == IF IsSome(f) /\ f[1].t = "num" THEN Some(f[1].s) ELSE None

\* A field of type Option<String>: an absent member and null are Ok(None),
\* a JSON string is Ok(Some(s)), any other type is the error.
ParseOptString(f) ==
    IF ~IsSome(f) \/ f[1].t = "null" THEN Some(None)
    ELSE IF f[1].t = "str" THEN Some(Some(f[1].s))
    ELSE None

\* struct ModelInfoLiteLLMParams { max_tokens: i64, model: String }
ParseLiteLLMParams(f) ==
    IF ~IsSome(f) THEN None
    ELSE LET max_tokens == ParseI64(f[1].max_tokens)
             model == ParseString(f[1].model)
         IN IF IsSome(max_tokens) /\ IsSome(model)
            THEN Some([max_tokens |-> max_tokens[1], model |-> model[1]])
            ELSE None

\* struct ModelInfoParams { banner: Option<String>, context_window: i64,
\*                          description: Option<String>, ... }
ParseInfoParams(f) ==
    IF ~IsSome(f) THEN None
    ELSE LET banner == ParseOptString(f[1].banner)
             context_window == ParseI64(f[1].context_window)
             description == ParseOptString(f[1].description)
         IN IF IsSome(banner) /\ IsSome(context_window) /\ IsSome(description)
            THEN Some([banner |-> banner[1], context_window |-> context_window[1],
                       description |-> description[1]])
            ELSE None

\* struct ModelInfo { model_info, model_name: String, litellm_params }
ParseModelInfo(r) ==
    LET model_info == ParseInfoParams(r.model_info)
        model_name == ParseString(r.model_name)
        litellm_params == ParseLiteLLMParams(r.litellm_params)
    IN IF IsSome(model_info) /\ IsSome(model_name) /\ IsSome(litellm_params)
       THEN Some([model_info |-> model_info[1], model_name |-> model_name[1],
                  litellm_params |-> litellm_params[1]])
       ELSE None

\* A list deserialiser that drops the records that fail and keeps the rest.
RECURSIVE ParseVec_skip_malformed(_)
ParseVec_skip_malformed(items) ==
    IF items = << >> THEN Some(<< >>)
    ELSE LET head == ParseModelInfo(Head(items))
             rest == ParseVec_skip_malformed(Tail(items))
         IN Some(head \o rest[1])

\* Vec<ModelInfo>: every element must deserialise, the first failure fails the list.
RECURSIVE ParseVec(_)
ParseVec(items) ==
    IF items = << >> THEN Some(<< >>)
    ELSE LET head == ParseModelInfo(Head(items))
             rest == ParseVec(Tail(items))
         IN IF IsSome(head) /\ IsSome(rest) THEN Some(<< head[1] >> \o rest[1]) ELSE None

\* response.json::<ModelInfoResponse>(): the body must be JSON, an object whose
\* "data" member is present and a list of ModelInfo; "object" is Option<String>.
ParseResponse(body) ==
    IF body.syntax # "json" THEN None
    ELSE IF ~IsSome(body.data) \/ body.data[1].t # "arr" THEN None
    ELSE LET object == ParseOptString(body.object)
             data == ParseVec(body.data[1].items)
         IN IF IsSome(object) /\ IsSome(data)
            THEN Some([object |-> object[1], data |-> data[1]])
            ELSE None

\* ---------------------------------------------------------------- mapping

\* A preset whose id is the record's display name.
PresetOf_id_from_name(model_info, is_default) ==
    ModelPreset(model_info.model_name,
                model_info.litellm_params.model,
                model_info.model_name,
                UnwrapOrEmpty(model_info.model_info.description),
                None, << >>, is_default)

\* The body of the for loop: the preset built from one parsed record.
PresetOf(model_info, is_default) ==
    ModelPreset(model_info.litellm_params.model,
                model_info.litellm_params.model,
                model_info.model_name,
                UnwrapOrEmpty(model_info.model_info.description),
                None, << >>, is_default)

\* The flag is never reset.
NextIsDefault_kept(is_default) == is_default

\* is_default = false; at the end of each iteration.
NextIsDefault(is_default) == FALSE

\* No preset is flagged.
InitIsDefault_false == FALSE

\* let mut is_default = true;
InitIsDefault == TRUE

\* for model_info in response_data.data { ...; presets.push(preset); }
RECURSIVE MapLoop(_, _, _)
MapLoop(data, is_default, presets) ==
    IF data = << >> THEN presets
    ELSE MapLoop(Tail(data), NextIsDefault(is_default),
                 Append(presets, PresetOf(Head(data), is_default)))

\* let mut presets = Vec::new(); ... the loop ...; Ok(presets)
MapPresets(response_data) == MapLoop(response_data.data, InitIsDefault, << >>)

\* ---------------------------------------------------------------- inputs

\* Option<AuthMode> values a caller can pass.
AuthArgs == {None} \cup {Some(m) : m \in AuthModes}

\* Option<&str> values for base_url: absent, empty, with and without trailing slashes.
BaseUrlArgs == {None, Some(<< >>), Some(<< "h" >>), Some(<< "h", "/" >>),
                Some(<< "h", "/", "/" >>)}

\* Option<&str> values for access_token.
TokenArgs == {None, Some(""), Some("tok")}

\* Status codes the registry can answer with.
Statuses == {200, 204, 301, 401, 500}

Slugs == {"foo-backend", "bar-backend"}

\* Records carrying every member the schema names; the description is absent,
\* null or a string.
FullRecords ==
    { RecordJson(Some(InfoJson(None, Some(Num("8192")), d)),
                 Some(Str("foo")),
                 Some(LiteLLMJson(Some(Num("4096")), Some(Str(s))))) :
        s \in Slugs, d \in {None, Some(Null), Some(Str("bar"))} }

\* {model_name: "foo", litellm_params: {model: "foo-backend"},
\*  model_info: {description: "bar"}}
MinimalRecord ==
    RecordJson(Some(InfoJson(None, None, Some(Str("bar")))),
               Some(Str("foo")),
               Some(LiteLLMJson(None, Some(Str("foo-backend")))))

\* A full record with one member removed, mistyped or added.
VariantRecords ==
    LET info == InfoJson(None, Some(Num("8192")), Some(Str("bar")))
        name == Some(Str("foo"))
        llm == LiteLLMJson(Some(Num("4096")), Some(Str("foo-backend")))
    IN { RecordJson(Some(info), None, Some(llm)),
         RecordJson(Some(info), Some(Num("7")), Some(llm)),
         RecordJson(Some(info), name, None),
         RecordJson(Some(info), name, Some(LiteLLMJson(Some(Num("4096")), None))),
         RecordJson(Some(info), name, Some(LiteLLMJson(None, Some(Str("foo-backend"))))),
         RecordJson(None, name, Some(llm)),
         RecordJson(Some(InfoJson(None, None, Some(Str("bar")))), name, Some(llm)),
         RecordJson(Some(InfoJson(None, Some(Num("8192")), Some(Num("3")))), name, Some(llm)),
         RecordJson(Some(InfoJson(Some(Str("new")), Some(Num("8192")), Some(Str("bar")))),
                    name, Some(llm)) }

Records == FullRecords \cup {MinimalRecord} \cup VariantRecords

\* The sequences over S of length at most n.
SeqsUpTo(S, n) == UNION { [1..k -> S] : k \in 0..n }

JsonBody(object, data) == [syntax |-> "json", object |-> object, data |-> data]
Arr(items) == [t |-> "arr", items |-> items]

\* Response bodies: not JSON, an object without "data", "data" of the wrong
\* type, and objects whose "data" is a list of at most MaxRecords records.
Bodies ==
    { [syntax |-> "garbage", object |-> None, data |-> None],
      JsonBody(Some(Str("list")), None),
      JsonBody(None, Some([t |-> "str", items |-> << >>])),
      JsonBody(Some(Str("list")), Some(Arr(<< >>))) }
    \cup { JsonBody(None, Some(Arr(items))) : items \in SeqsUpTo(Records, MaxRecords) }

\* ---------------------------------------------------------------- state machine

Init ==
    /\ catalog = PRESETS
    /\ pc = "idle"
    /\ entry = "none"
    /\ auth_mode = None
    /\ base_url = None
    /\ access_token = None
    /\ request = None
    /\ requests = 0
    /\ transport = "none"
    /\ status = None
    /\ response = None
    /\ json_called = FALSE
    /\ result = NoResult

\* PRESETS.to_vec(): a copy of the static data.
ToVec == catalog

\* builtin_model_presets_sync(_auth_mode)
SyncCall ==
    /\ pc = "idle"
    /\ \E mode \in AuthArgs :
        /\ entry' = "sync"
        /\ auth_mode' = mode
        /\ IF IsOCA(mode)
           THEN pc' = "panicked" /\ result' = Panic
           ELSE pc' = "done" /\ result' = Ok(ToVec)
    /\ UNCHANGED << catalog, base_url, access_token, request, requests,
                    transport, status, response, json_called >>

\* fetch_oracle_code_assist_models up to its first await: the request is built
\* and handed to the transport.
StartFetch(b, t) ==
    /\ request' = Some(Request(b, t))
    /\ requests' = requests + 1
    /\ pc' = "send"

\* builtin_model_presets(_auth_mode, base_url, access_token)
AsyncCall ==
    /\ pc = "idle"
    /\ \E mode \in AuthArgs, b \in BaseUrlArgs, t \in TokenArgs :
        /\ entry' = "async"
        /\ auth_mode' = mode
        /\ base_url' = b
        /\ access_token' = t
        /\ IF IsOCA(mode)
           THEN /\ StartFetch(UnwrapOrDefault(b), UnwrapOrEmpty(t))
                /\ UNCHANGED result
           ELSE /\ pc' = "done"
                /\ result' = Ok(ToVec)
                /\ UNCHANGED << request, requests >>
    /\ UNCHANGED << catalog, transport, status, response, json_called >>

\* fetch_oracle_code_assist_models(base_url, access_token) called directly.
FetchCall ==
    /\ pc = "idle"
    /\ \E b \in BaseUrlArgs \ {None}, t \in TokenArgs \ {None} :
        /\ entry' = "fetch"
        /\ base_url' = b
        /\ access_token' = t
        /\ StartFetch(Unwrap(b), Unwrap(t))
    /\ UNCHANGED << catalog, auth_mode, transport, status, response,
                    json_called, result >>

\* send().await? fails: the transport error is returned.
SendFails ==
    /\ pc = "send"
    /\ transport' = "error"
    /\ request' = None
    /\ base_url' = None
    /\ access_token' = None
    /\ result' = Err("transport")
    /\ pc' = "done"
    /\ UNCHANGED << catalog, entry, auth_mode, requests, status, response, json_called >>

\* send().await? yields a response; the status is checked and, when it is a
\* success, response.json() is invoked.
SendCompletes ==
    /\ pc = "send"
    /\ transport' = "ok"
    /\ request' = None
    /\ base_url' = None
    /\ access_token' = None
    /\ \E s \in Statuses :
        /\ status' = Some(s)
        /\ IF ~IsSuccess(s)
           THEN /\ result' = Err("status")
                /\ pc' = "done"
                /\ UNCHANGED << response, json_called >>
           ELSE /\ \E body \in Bodies : response' = Some(body)
                /\ json_called' = TRUE
                /\ pc' = "json"
                /\ UNCHANGED result
    /\ UNCHANGED << catalog, entry, auth_mode, requests >>

\* json().await? completes: a body that does not deserialise is returned as
\* the error, otherwise the records are mapped and the presets returned.
JsonCompletes ==
    /\ pc = "json"
    /\ LET response_data == ParseResponse(response[1])
       IN result' = IF IsSome(response_data)
                    THEN Ok(MapPresets(response_data[1]))
                    ELSE Err("decode")
    /\ pc' = "done"
    /\ UNCHANGED << catalog, entry, auth_mode, base_url, access_token, request,
                    requests, transport, status, response, json_called >>

\* The caller takes the result; the next call starts from a clean frame.
Return ==
    /\ pc = "done"
    /\ pc' = "idle"
    /\ entry' = "none"
    /\ auth_mode' = None
    /\ base_url' = None
    /\ access_token' = None
    /\ request' = None
    /\ requests' = 0
    /\ transport' = "none"
    /\ status' = None
    /\ response' = None
    /\ json_called' = FALSE
    /\ result' = NoResult
    /\ UNCHANGED catalog

Next ==
    \/ SyncCall
    \/ AsyncCall
    \/ FetchCall
    \/ SendFails
    \/ SendCompletes
    \/ JsonCompletes
    \/ Return

Spec == Init /\ [][Next]_vars

\* ---------------------------------------------------------------- reading states

\* The number of presets of a catalog flagged default.
NumDefault(ps) == Cardinality({i \in DOMAIN ps : ps[i].is_default})

\* The call in progress took the registry path and has returned Ok.
RemoteOk == pc = "done" /\ result.kind = "Ok" /\ requests > 0

\* The raw records of the response body that was read (the body is a JSON
\* object with a "data" list).
HasDataList == IsSome(response) /\ response[1].syntax = "json"
                 /\ IsSome(response[1].data) /\ response[1].data[1].t = "arr"
RawItems == response[1].data[1].items

\* Raw members of a record, read from the JSON without the deserialiser.
HasName(r) == IsSome(r.model_name) /\ r.model_name[1].t = "str"
HasSlug(r) == IsSome(r.litellm_params) /\ IsSome(r.litellm_params[1].model)
                /\ r.litellm_params[1].model[1].t = "str"
RawName(r) == r.model_name[1].s
RawSlug(r) == r.litellm_params[1].model[1].s
RawDescription(r) ==
    IF IsSome(r.model_info) /\ IsSome(r.model_info[1].description)
         /\ r.model_info[1].description[1].t = "str"
    THEN r.model_info[1].description[1].s
    ELSE ""

\* ---------------------------------------------------------------- C1

\* C1: in every reachable state, whatever calls were made and however they
\* ended, the static catalog holds the presets it was built with and exactly
\* one of them is flagged default.
C1_StaticCatalogFixed ==
    /\ catalog = PRESETS
    /\ Len(catalog) = 2
    /\ NumDefault(catalog) = 1

\* A remote resolution has returned a catalog other than the static one.
C1_Witness ==
    /\ RemoteOk
    /\ result.presets # << >>
    /\ result.presets # catalog
    /\ NumDefault(catalog) = 1

\* ---------------------------------------------------------------- C2

\* C2: builtin_model_presets_sync panics for Some(OCA) and returns nothing;
\* for every other auth mode, None included, it returns the static catalog.
C2_SyncPanicsOnlyForOCA ==
    entry = "sync" =>
        IF auth_mode = Some("OCA")
        THEN pc = "panicked" /\ result.kind = "Panic" /\ result.presets = << >>
        ELSE pc = "done" /\ result = Ok(PRESETS)

\* The blocking entry point was called with Some(OCA) and panicked.
C2_Witness == entry = "sync" /\ auth_mode = Some("OCA") /\ pc = "panicked"

\* ---------------------------------------------------------------- C3

\* C3: builtin_model_presets with any auth mode other than Some(OCA) returns
\* Ok(static catalog), same presets in the same order, whatever base_url and
\* access_token are, and issues no request.
C3_AsyncStaticPath ==
    (entry = "async" /\ auth_mode # Some("OCA")) =>
        /\ pc = "done"
        /\ result = Ok(PRESETS)
        /\ requests = 0
        /\ request = None
        /\ transport = "none"

\* The asynchronous entry point returned for a first-party mode that was given
\* a base URL and a token.
C3_Witness ==
    /\ entry = "async"
    /\ auth_mode = Some("ChatGPT")
    /\ base_url = Some(<< "h", "/" >>)
    /\ access_token = Some("tok")
    /\ pc = "done"
    /\ result.kind = "Ok"

\* ---------------------------------------------------------------- C4

\* C4: a registry response with N records that is mapped successfully gives N
\* presets, preset i built from record i, the first flagged default and no
\* other.
C4_OrderAndFirstDefault ==
    (RemoteOk /\ HasDataList) =>
        /\ Len(result.presets) = Len(RawItems)
        /\ \A i \in 1..Len(RawItems) :
            /\ HasSlug(RawItems[i])
            /\ HasName(RawItems[i])
            /\ result.presets[i].id = RawSlug(RawItems[i])
            /\ result.presets[i].display_name = RawName(RawItems[i])
            /\ result.presets[i].is_default = (i = 1)

\* Two records with different slugs were mapped, in response order.
C4_Witness ==
    /\ RemoteOk
    /\ Len(result.presets) = 2
    /\ result.presets[1].id = "bar-backend"
    /\ result.presets[2].id = "foo-backend"
    /\ result.presets[1].is_default
    /\ ~result.presets[2].is_default

\* ---------------------------------------------------------------- C5

\* C5 as stated: every catalog returned with Ok, by either entry point, holds
\* exactly one preset flagged default.
C5_ExactlyOneDefault ==
    (pc = "done" /\ result.kind = "Ok") => NumDefault(result.presets) = 1

\* C5 amended: every non-empty catalog returned with Ok holds exactly one
\* preset flagged default; an empty catalog is returned only on the registry
\* path, for a response whose data list is empty, and holds none.
C5_OneDefaultUnlessEmpty ==
    (pc = "done" /\ result.kind = "Ok") =>
        IF result.presets = << >>
        THEN requests > 0 /\ HasDataList /\ RawItems = << >>
        ELSE NumDefault(result.presets) = 1

\* A registry response with two records was mapped to a catalog with one default.
C5_Witness ==
    /\ RemoteOk
    /\ HasDataList
    /\ Len(RawItems) = 2
    /\ NumDefault(result.presets) = 1

\* ---------------------------------------------------------------- C6

\* C6: a body whose data list is present and whose records all carry a string
\* model_name and a string litellm_params.model (next to a model_info object)
\* deserialises, whatever other members (description, max_tokens,
\* context_window, banner) are absent; the record {model_name: "foo", litellm_params: {model:
\* "foo-backend"}, model_info: {description: "bar"}} maps to the single preset
\* foo-backend / foo / bar, default, without efforts.
C6_OnlyNameAndSlugRequired ==
    (pc = "done" /\ json_called /\ HasDataList
       /\ \A i \in 1..Len(RawItems) :
            /\ HasName(RawItems[i]) /\ HasSlug(RawItems[i])
            /\ IsSome(RawItems[i].model_info)) =>
        /\ result.kind = "Ok"
        /\ RawItems = << MinimalRecord >> =>
             result.presets = << ModelPreset("foo-backend", "foo-backend", "foo", "bar",
                                             None, << >>, TRUE) >>

\* ---------------------------------------------------------------- C7

\* C7: when the response status is not a success code the call returns the
\* status error, json() is never invoked and no preset is built; json() is
\* invoked only after a status in 200..299 was seen.
C7_NoParseOnFailureStatus ==
    /\ (IsSome(status) /\ (status[1] < 200 \/ status[1] > 299)) =>
          /\ pc = "done"
          /\ result = Err("status")
          /\ ~json_called
          /\ response = None
    /\ json_called => (IsSome(status) /\ status[1] >= 200 /\ status[1] <= 299)

\* The registry answered 401 and the call returned the status error.
C7_Witness ==
    /\ status = Some(401)
    /\ pc = "done"
    /\ result = Err("status")
    /\ ~json_called

\* ---------------------------------------------------------------- C8

C9_UniqueIds ==
    (pc = "done" /\ result.kind = "Ok") =>
        \A i, j \in DOMAIN result.presets :
            result.presets[i].id = result.presets[j].id => i = j

\* ---------------------------------------------------------------- C10

\* C10: a preset built from a registry record has id and model equal to the
\* record's backend slug, display_name equal to its model_name, description
\* equal to its description or "" when there is none, no default effort and no
\* supported efforts; and in every catalog returned, a default effort that is
\* set is one of the preset's supported efforts.
C10_RemoteFieldsAndEfforts ==
    /\ (RemoteOk /\ HasDataList) =>
          \A i \in DOMAIN result.presets :
              /\ i <= Len(RawItems)
              /\ HasSlug(RawItems[i]) /\ HasName(RawItems[i])
              /\ result.presets[i].id = RawSlug(RawItems[i])
              /\ result.presets[i].model = RawSlug(RawItems[i])
              /\ result.presets[i].display_name = RawName(RawItems[i])
              /\ result.presets[i].description = RawDescription(RawItems[i])
              /\ result.presets[i].default_reasoning_effort = None
              /\ result.presets[i].supported_reasoning_efforts = << >>
    /\ (pc = "done" /\ result.kind = "Ok") =>
          \A i \in DOMAIN result.presets :
              LET p == result.presets[i]
              IN IsSome(p.default_reasoning_effort) =>
                   \E k \in DOMAIN p.supported_reasoning_efforts :
                       p.supported_reasoning_efforts[k].effort = p.default_reasoning_effort[1]

\* A record whose description is null was mapped to a preset with the empty
\* description, next to one whose description is a string.
C10_Witness ==
    /\ RemoteOk
    /\ HasDataList
    /\ Len(result.presets) = 2
    /\ IsSome(RawItems[1].model_info[1].description)
    /\ RawItems[1].model_info[1].description[1].t = "null"
    /\ result.presets[1].description = ""
    /\ result.presets[2].description = "bar"

====
